---- MODULE Spec2Model ----
(***************************************************************************)
(* A model of usps-webtools (src/src/usps.js): the client constructor, the *)
(* four public operations (verify, zipCodeLookup, cityStateLookup,         *)
(* RateV4Request) and the request pipeline callUSPS.                       *)
(*                                                                         *)
(* JavaScript values are tagged records [t |-> <type>, v |-> <payload>].   *)
(* A string is a sequence of tokens (characters, or whole words where the  *)
(* code never looks inside them); whitespace is the tokens in Whitespace.  *)
(* A number is an exact fraction n/d in lowest terms.                      *)
(***************************************************************************)
EXTENDS Integers, Sequences, FiniteSets, TLC

\* ------------------------------------------------------------- bounds
\* number of calls the caller may have in flight on one client
MaxCalls == 2
\* largest numeric weight (in ounces) handed to RateV4Request
MaxWeight == 40
\* longest Description text of an Error element
MaxDescLen == 3
\* longest weight string handed to RateV4Request
MaxWeightStrLen == 2

\* ------------------------------------------------------------- JavaScript values
Undefined == [t |-> "undefined"]
Null == [t |-> "null"]
Str(s) == [t |-> "string", v |-> s]
Obj(m) == [t |-> "object", v |-> m]
Arr(s) == [t |-> "array", v |-> s]
NaN == [t |-> "NaN"]

RECURSIVE Gcd(_, _)
Gcd(a, b) == IF b = 0 THEN a ELSE Gcd(b, a % b)

Abs(n) == IF n < 0 THEN -n ELSE n

\* the number n/d (d > 0), in lowest terms
Num(n, d) ==
  LET g == Gcd(Abs(n), d)
  IN [t |-> "number", n |-> n \div g, d |-> d \div g]

IntNum(n) == Num(n, 1)

IsNullish(x) == x.t \in {"undefined", "null"}

\* JavaScript truthiness
Truthy(x) ==
  CASE x.t \in {"undefined", "null", "NaN"} -> FALSE
    [] x.t = "string" -> x.v # <<>>
    [] x.t = "number" -> x.n # 0
    [] OTHER -> TRUE

\* a || b
Or(a, b) == IF Truthy(a) THEN a ELSE b

\* x[k] for a property name k, x neither null nor undefined
Get(x, k) == IF x.t = "object" /\ k \in DOMAIN x.v THEN x.v[k] ELSE Undefined

\* x[0], x neither null nor undefined
At0(x) ==
  CASE x.t = "array" -> IF Len(x.v) > 0 THEN x.v[1] ELSE Undefined
    [] x.t = "string" -> IF Len(x.v) > 0 THEN Str(<<x.v[1]>>) ELSE Undefined
    [] OTHER -> Undefined

Whitespace == {" ", "\t"}

RECURSIVE TrimStart(_)
TrimStart(s) ==
  IF s # <<>> /\ Head(s) \in Whitespace THEN TrimStart(Tail(s)) ELSE s

RECURSIVE TrimEnd(_)
TrimEnd(s) ==
  IF s # <<>> /\ s[Len(s)] \in Whitespace
  THEN TrimEnd(SubSeq(s, 1, Len(s) - 1))
  ELSE s

\* trim that leaves the trailing whitespace
TrimStartOnly(s) == TrimStart(s)

\* String.prototype.trim
Trim(s) == TrimEnd(TrimStart(s))

\* the outcome of an expression: a value, or a thrown TypeError
Thrown == [t |-> "TypeError"]

IsThrown(x) == x.t = "TypeError"

\* ------------------------------------------------------------- constructor
DefaultTtl == 100000

\* the constructor defaulting ttl only when the field is absent
uspsDefaultsAbsentTtl(config) ==
  IF ~(Truthy(config) /\ Truthy(Get(config, "server")) /\ Truthy(Get(config, "userId")))
  THEN Thrown
  ELSE IF Get(config, "ttl") = Undefined
       THEN Obj(("ttl" :> IntNum(DefaultTtl)) @@ config.v)
       ELSE config

\* usps(config): the config the new client holds, or Thrown
usps(config) ==
  IF ~(Truthy(config) /\ Truthy(Get(config, "server")) /\ Truthy(Get(config, "userId")))
  THEN Thrown
  ELSE IF ~Truthy(Get(config, "ttl"))
       THEN Obj(("ttl" :> IntNum(DefaultTtl)) @@ config.v)
       ELSE config

\* ------------------------------------------------------------- callUSPS: the request
\* builder.create(obj).end() for obj = {method: params}: the document's root
\* element, its attributes (the '@' keys) and its child elements
BuilderCreate(method, params) ==
  [root |-> method,
   attributes |-> [k \in {"@USERID"} \cap DOMAIN params.v |-> params.v[k]],
   children |-> [k \in DOMAIN params.v \ {"@USERID"} |-> params.v[k]]]

\* obj[method]['@USERID'] = config.userId: params after the assignment
WithUserId(config, params) ==
  Obj(("@USERID" :> Get(config, "userId")) @@ params.v)

\* the opts callUSPS hands to request()
RequestOpts(api, method, config, params) ==
  [url |-> Get(config, "server"),
   qs |-> [API |-> api, XML |-> BuilderCreate(method, WithUserId(config, params))],
   timeout |-> Get(config, "ttl")]

\* new USPSError(message, err, context)
NewUSPSError(message, err, context) ==
  [t |-> "USPSError", message |-> message, err |-> err, context |-> context]

Context(api, during) ==
  Obj([method |-> Str(<<api>>), during |-> Str(<<during>>)])

\* ------------------------------------------------------------- callUSPS: the result
\* try { e.Description[0].trim() } catch { e }, for a truthy e
RootErrMessage(e) ==
  LET d == Get(e, "Description")
  IN IF IsNullish(d) THEN e
     ELSE IF At0(d).t = "string" THEN Str(Trim(At0(d).v)) ELSE e

\* try { e[0].Description[0].trim() } catch { e }, for a truthy e
NodeErrMessage(e) ==
  LET e0 == At0(e)
  IN IF IsNullish(e0) THEN e
     ELSE LET d == Get(e0, "Description")
          IN IF IsNullish(d) THEN e
             ELSE IF At0(d).t = "string" THEN Str(Trim(At0(d).v)) ELSE e

\* resultDotNotation.split('.'): the segments between the "." tokens
RECURSIVE SplitFrom(_, _)
SplitFrom(s, cur) ==
  IF s = <<>> THEN <<cur>>
  ELSE IF Head(s) = "." THEN <<cur>> \o SplitFrom(Tail(s), <<>>)
  ELSE SplitFrom(Tail(s), Append(cur, Head(s)))

\* a segment as a property name (the modelled names are one token long)
KeyOf(seg) == IF seg = <<>> THEN "" ELSE seg[1]

Split(s) ==
  LET segs == SplitFrom(s, <<>>)
  IN [i \in 1..Len(segs) |-> KeyOf(segs[i])]

\* the walk taking the last element of a sequence instead of the first
RECURSIVE walkResultLast(_, _)
walkResultLast(specificResult, parts) ==
  IF parts = <<>> THEN specificResult
  ELSE IF IsNullish(specificResult) THEN Thrown
  ELSE LET value == Get(specificResult, Head(parts))
       IN walkResultLast(IF value.t = "array"
                         THEN IF Len(value.v) > 0 THEN value.v[Len(value.v)] ELSE Undefined
                         ELSE value,
                         Tail(parts))

\* walkResult(): specificResult once parts is used up, or Thrown
RECURSIVE walkResult(_, _)
walkResult(specificResult, parts) ==
  IF parts = <<>> THEN specificResult
  ELSE IF IsNullish(specificResult) THEN Thrown
  ELSE LET value == Get(specificResult, Head(parts))
       IN walkResult(IF value.t = "array" THEN At0(value) ELSE value, Tail(parts))

\* ------------------------------------------------------------- the operations' callbacks
\* What running a callback did: the calls it made to the caller's callback, in
\* order, each with its arguments (err, data), and whether it threw.
Called(err, data) == [calls |-> <<[err |-> err, data |-> data]>>, threw |-> FALSE]

Threw == [calls |-> <<>>, threw |-> TRUE]

\* node[k][0], or Thrown when node[k] is undefined
Field0(node, k) ==
  IF IsNullish(Get(node, k)) THEN Thrown ELSE At0(Get(node, k))

\* node.Address1 ? node.Address1[0] : ''
Address1Of(node) ==
  IF Truthy(Get(node, "Address1")) THEN At0(Get(node, "Address1")) ELSE Str(<<>>)

\* the text of x in a string concatenation
ToText(x) ==
  CASE x.t = "string" -> x.v
    [] x.t = "undefined" -> <<"undefined">>
    [] OTHER -> <<"[object]">>

AnyThrown(S) == \E x \in S : IsThrown(x)

\* the callback verify hands to callUSPS
verifyCallback(err, address) ==
  IF Truthy(err) THEN Called(err, Undefined)
  ELSE IF AnyThrown({Field0(address, k) : k \in {"Address2", "City", "Zip5", "State"}})
  THEN Threw
  ELSE Called(Null, Obj([street1 |-> Field0(address, "Address2"),
                         street2 |-> Address1Of(address),
                         city |-> Field0(address, "City"),
                         zip |-> Field0(address, "Zip5"),
                         state |-> Field0(address, "State")]))

\* the callback zipCodeLookup hands to callUSPS
zipCodeLookupCallback(err, address) ==
  IF Truthy(err) THEN Called(err, Undefined)
  ELSE IF AnyThrown({Field0(address, k) : k \in {"Address2", "City", "State", "Zip5", "Zip4"}})
  THEN Threw
  ELSE Called(Null, Obj([street1 |-> Field0(address, "Address2"),
                         street2 |-> Address1Of(address),
                         city |-> Field0(address, "City"),
                         state |-> Field0(address, "State"),
                         zip |-> Str(ToText(Field0(address, "Zip5")) \o <<"-">>
                                     \o ToText(Field0(address, "Zip4")))]))

\* the callback cityStateLookup hands to callUSPS
cityStateLookupCallback(err, address) ==
  IF Truthy(err) THEN Called(err, Undefined)
  ELSE IF AnyThrown({Field0(address, k) : k \in {"City", "State", "Zip5"}})
  THEN Threw
  ELSE Called(err, Obj([city |-> Field0(address, "City"),
                        state |-> Field0(address, "State"),
                        zip |-> Field0(address, "Zip5")]))

\* the callback RateV4Request hands to callUSPS
RateV4Callback(err, data) ==
  IF Truthy(err) THEN Called(err, Undefined) ELSE Called(err, data)

Ops == {"verify", "zipCodeLookup", "cityStateLookup", "RateV4Request"}

\* the arguments each operation passes to callUSPS
Api(op) ==
  CASE op = "verify" -> "Verify"
    [] op = "zipCodeLookup" -> "ZipCodeLookup"
    [] op = "cityStateLookup" -> "CityStateLookup"
    [] op = "RateV4Request" -> "RateV4"

Method(op) ==
  CASE op = "verify" -> "AddressValidateRequest"
    [] op = "zipCodeLookup" -> "ZipCodeLookupRequest"
    [] op = "cityStateLookup" -> "CityStateLookupRequest"
    [] op = "RateV4Request" -> "RateV4Request"

ResultDotNotation(op) ==
  CASE op = "verify" -> <<"AddressValidateResponse", ".", "Address">>
    [] op = "zipCodeLookup" -> <<"ZipCodeLookupResponse", ".", "Address">>
    [] op = "cityStateLookup" -> <<"CityStateLookupResponse", ".", "ZipCode">>
    [] op = "RateV4Request" -> <<"RateV4Response">>

OpCallback(op, err, data) ==
  CASE op = "verify" -> verifyCallback(err, data)
    [] op = "zipCodeLookup" -> zipCodeLookupCallback(err, data)
    [] op = "cityStateLookup" -> cityStateLookupCallback(err, data)
    [] op = "RateV4Request" -> RateV4Callback(err, data)

\* ------------------------------------------------------------- callUSPS: the response
\* The function callUSPS hands to xml2js.parseString, given (err, result), with
\* op's callback as its callback.
parseCallback(op, api, resultDotNotation, err, result) ==
  IF Truthy(err)
  THEN OpCallback(op, NewUSPSError(Get(err, "message"), err, Context(api, "xml parse")),
                  Undefined)
  ELSE IF IsNullish(result) THEN Threw
  ELSE IF Truthy(Get(result, "Error"))
  THEN OpCallback(op, NewUSPSError(RootErrMessage(Get(result, "Error")),
                                   Get(result, "Error"), Undefined),
                  Undefined)
  ELSE LET specificResult == walkResult(result, Split(resultDotNotation))
       IN IF IsThrown(specificResult) \/ IsNullish(specificResult) THEN Threw
          ELSE IF Truthy(Get(specificResult, "Error"))
          THEN OpCallback(op, NewUSPSError(NodeErrMessage(Get(specificResult, "Error")),
                                           Get(specificResult, "Error"), Undefined),
                          Undefined)
          ELSE OpCallback(op, Null, specificResult)

\* What handling a response did: the calls made to the caller's callback, and
\* whether an exception left the handler uncaught.
Handled(calls, uncaught) == [calls |-> calls, uncaught |-> uncaught]

\* the exception object of a thrown TypeError, as a callback's err argument
TypeErrorObject == Obj([message |-> Str(<<"TypeError">>)])

\* How xml2js.parseString treats an exception thrown by the callback it was
\* given: it lets it through ("rethrow"), drops it ("swallow"), or reports it
\* as a parse error by calling the callback again ("reemit"). The releases of
\* the library differ, and the source does not pin one.
CatchModes == {"rethrow", "swallow", "reemit"}

\* A response body is "malformed" or the tree the parser makes of it.
Malformed == [t |-> "malformed"]

SaxError == Obj([message |-> Str(<<"Unclosed root tag">>)])

\* xml2js.parseString(body, parseCallback)
parseString(op, api, resultDotNotation, body, mode) ==
  LET first == IF body = Malformed
               THEN parseCallback(op, api, resultDotNotation, SaxError, Undefined)
               ELSE parseCallback(op, api, resultDotNotation, Null, body)
      again == parseCallback(op, api, resultDotNotation, TypeErrorObject, Undefined)
  IN IF ~first.threw THEN Handled(first.calls, FALSE)
     ELSE CASE mode = "rethrow" -> Handled(first.calls, TRUE)
            [] mode = "swallow" -> Handled(first.calls, FALSE)
            [] mode = "reemit" -> Handled(first.calls \o again.calls, again.threw)

\* The function callUSPS hands to request(), given (err, res, body).
requestCallback(op, api, resultDotNotation, err, body, mode) ==
  IF Truthy(err)
  THEN Handled(OpCallback(op, NewUSPSError(Get(err, "message"), err,
                                           Context(api, "request")),
                          Undefined).calls, FALSE)
  ELSE parseString(op, api, resultDotNotation, body, mode)

\* ------------------------------------------------------------- the operations' requests
Digits == <<"0", "1", "2", "3", "4", "5", "6", "7", "8", "9">>

IsDigit(c) == \E i \in 1..10 : Digits[i] = c

DigitValue(c) == (CHOOSE i \in 1..10 : Digits[i] = c) - 1

\* the value of the longest prefix of digits of s, on top of acc
RECURSIVE ParseDigits(_, _)
ParseDigits(s, acc) ==
  IF s # <<>> /\ IsDigit(Head(s))
  THEN ParseDigits(Tail(s), 10 * acc + DigitValue(Head(s)))
  ELSE acc

\* parseInt of the text s (a sequence of characters), radix 10
ParseIntText(s) ==
  LET body == TrimStart(s)
      signed == body # <<>> /\ Head(body) \in {"-", "+"}
      digits == IF signed THEN Tail(body) ELSE body
  IN IF digits = <<>> \/ ~IsDigit(Head(digits)) THEN NaN
     ELSE IF signed /\ Head(body) = "-" THEN IntNum(-ParseDigits(digits, 0))
     ELSE IntNum(ParseDigits(digits, 0))

\* parseInt(x, 10)
parseInt(x) ==
  CASE x.t = "number" ->
         IF x.n >= 0 THEN IntNum(x.n \div x.d) ELSE IntNum(-((-x.n) \div x.d))
    [] x.t = "string" -> ParseIntText(x.v)
    [] OTHER -> NaN

\* a / b for numbers a and b, b > 0
Divide(a, b) == Num(a.n * b.d, a.d * b.n)

\* var ozWeight = parseInt(weight, 10) || 0
ozWeight(weight) == Or(parseInt(weight), IntNum(0))

\* the pounds as a whole number: the ounces divided by 16, rounded down
lbsWeightFloored(weight) == IntNum(ozWeight(weight).n \div 16)

\* lbsWeight = ozWeight / 16
lbsWeight(weight) == Divide(ozWeight(weight), IntNum(16))

\* verify's obj without the swap of the two address lines
verifyObjUnswapped(address) ==
  Obj([Address |-> Obj([Address1 |-> Get(address, "street1"),
                        Address2 |-> Or(Get(address, "street2"), Str(<<>>)),
                        City |-> Get(address, "city"),
                        State |-> Get(address, "state"),
                        Zip5 |-> Get(address, "zip"),
                        Zip4 |-> Str(<<>>)])])

\* the obj verify builds from address
verifyObj(address) ==
  Obj([Address |-> Obj([Address1 |-> Or(Get(address, "street2"), Str(<<>>)),
                        Address2 |-> Get(address, "street1"),
                        City |-> Get(address, "city"),
                        State |-> Get(address, "state"),
                        Zip5 |-> Get(address, "zip"),
                        Zip4 |-> Str(<<>>)])])

\* the obj zipCodeLookup builds from address
zipCodeLookupObj(address) ==
  Obj([Address |-> Obj([Address1 |-> Or(Get(address, "street2"), Str(<<>>)),
                        Address2 |-> Get(address, "street1"),
                        City |-> Get(address, "city"),
                        State |-> Get(address, "state")])])

\* the obj cityStateLookup builds from zip
cityStateLookupObj(zip) == Obj([ZipCode |-> Obj([Zip5 |-> zip])])

\* the obj RateV4Request builds
RateV4Obj(fromZip, toZip, weight, service) ==
  Obj([ID |-> IntNum(0),
       Service |-> Or(service, Str(<<"STANDARD POST">>)),
       ZipOrigination |-> fromZip,
       ZipDestination |-> toZip,
       Pounds |-> lbsWeight(weight),
       Ounces |-> ozWeight(weight),
       Container |-> Str(<<>>),
       Size |-> Str(<<"REGULAR">>),
       SpecialServices |-> Obj([SpecialService |-> IntNum(106)])])

\* what an operation returns to its caller: this, or nothing
This == [t |-> "usps"]

Returned(op) ==
  IF op \in {"verify", "zipCodeLookup"} THEN This ELSE Undefined

\* a request sent a second time
requestTwice(sent, opts) == Append(Append(sent, opts), opts)

\* request(opts, requestCallback): the requests handed to the transport so far
request(sent, opts) == Append(sent, opts)

\* ------------------------------------------------------------- state
VARIABLES
  client,   \* the construction: not attempted, failed, or the client's config
  calls,    \* each call of the caller's: where it is, what it sent and got
  obj,      \* the global variable obj (RateV4Request assigns it without var)
  ex        \* a direct use of callUSPS's response handling (SpecExtract)

vars == <<client, calls, obj, ex>>

CallIds == 1..MaxCalls

NotConstructed == [state |-> "none", arg |-> Undefined, config |-> Undefined]

IdleCall ==
  [pc |-> "idle", op |-> "none", args |-> Undefined, ret |-> Undefined,
   sent |-> <<>>, cbs |-> <<>>, uncaught |-> FALSE,
   err |-> Undefined, body |-> Undefined]

NoExtract == [pc |-> "none"]

\* new usps(config)
New(config) ==
  /\ client.state = "none"
  /\ client' = IF IsThrown(usps(config))
               THEN [state |-> "failed", arg |-> config, config |-> Undefined]
               ELSE [state |-> "ok", arg |-> config, config |-> usps(config)]
  /\ UNCHANGED <<calls, obj, ex>>

\* the caller may start call i: a client exists, and i is the next unused call
CanStart(i) ==
  /\ client.state = "ok"
  /\ calls[i].pc = "idle"
  /\ \A j \in CallIds : j < i => calls[j].pc # "idle"

\* call i after op(args) has run callUSPS with params and returned
Started(i, op, args, params) ==
  [calls EXCEPT ![i] =
     [IdleCall EXCEPT !.pc = "sent", !.op = op, !.args = args,
                      !.ret = Returned(op),
                      !.sent = request(calls[i].sent,
                                       RequestOpts(Api(op), Method(op),
                                                   client.config, params))]]

verify(i, address) ==
  /\ CanStart(i)
  /\ calls' = Started(i, "verify", address, verifyObj(address))
  /\ UNCHANGED <<client, obj, ex>>

zipCodeLookup(i, address) ==
  /\ CanStart(i)
  /\ calls' = Started(i, "zipCodeLookup", address, zipCodeLookupObj(address))
  /\ UNCHANGED <<client, obj, ex>>

cityStateLookup(i, zip) ==
  /\ CanStart(i)
  /\ calls' = Started(i, "cityStateLookup", zip, cityStateLookupObj(zip))
  /\ UNCHANGED <<client, obj, ex>>

\* obj = {...} has no var: it assigns the global, and callUSPS adds '@USERID'
\* to that same object
RateV4Request(i, fromZip, toZip, weight, service) ==
  /\ CanStart(i)
  /\ calls' = Started(i, "RateV4Request",
                      Obj([fromZip |-> fromZip, toZip |-> toZip,
                           weight |-> weight, service |-> service]),
                      RateV4Obj(fromZip, toZip, weight, service))
  /\ obj' = WithUserId(client.config, RateV4Obj(fromZip, toZip, weight, service))
  /\ UNCHANGED <<client, ex>>

\* The transport calls back for call i with (err, res, body); the whole
\* handler runs: parse, extraction, the operation's callback, the caller's.
Completed(i, err, body, mode) ==
  LET c == calls[i]
      h == requestCallback(c.op, Api(c.op), ResultDotNotation(c.op), err, body, mode)
  IN /\ c.pc = "sent"
     /\ calls' = [calls EXCEPT ![i] =
                    [c EXCEPT !.pc = "done", !.cbs = h.calls,
                              !.uncaught = h.uncaught,
                              !.err = err, !.body = body]]
     /\ UNCHANGED <<client, obj, ex>>

\* the transport fails (network error, timeout): no body
requestFailed(i, err) == Completed(i, err, Undefined, "rethrow")

\* the transport delivers a body
responded(i, body, mode) == Completed(i, Null, body, mode)

\* ------------------------------------------------------------- the environment
NetError == Obj([message |-> Str(<<"connect ECONNREFUSED">>), code |-> Str(<<"ECONNREFUSED">>)])

TimeoutError == Obj([message |-> Str(<<"ETIMEDOUT">>), code |-> Str(<<"ETIMEDOUT">>)])

TransportErrors == {NetError, TimeoutError}

One(text) == Arr(<<Str(<<text>>)>>)

\* the parsed tree with node at resultDotNotation
TreeAt(resultDotNotation, node) ==
  LET keys == Split(resultDotNotation)
  IN IF Len(keys) = 1 THEN Obj(keys[1] :> node)
     ELSE Obj(keys[1] :> Obj(keys[2] :> Arr(<<node>>)))

\* a result node of the shape the service answers op with
GoodNode(op) ==
  CASE op \in {"verify", "zipCodeLookup"} ->
         Obj([Address2 |-> One("1 MAIN ST"), City |-> One("DENVER"),
              State |-> One("CO"), Zip5 |-> One("80202"), Zip4 |-> One("1234")])
    [] op = "cityStateLookup" ->
         Obj([City |-> One("DENVER"), State |-> One("CO"), Zip5 |-> One("80202")])
    [] op = "RateV4Request" ->
         Obj([Package |-> Arr(<<Obj([Postage |-> Arr(<<Obj([Rate |-> One("7.05")])>>)])>>)])

\* the same node without its City (for RateV4, which reads no field: empty)
ShortNode(op) ==
  IF op = "RateV4Request" THEN Obj(<<>>)
  ELSE Obj([k \in DOMAIN GoodNode(op).v \ {"City"} |-> GoodNode(op).v[k]])

ErrorElement(text) ==
  Obj([Number |-> One("-2147219401"), Description |-> Arr(<<Str(text)>>)])

BadInput == <<" ", "Bad input", " ">>

NotFound == <<"Address Not Found.", " ", " ">>

RootErrorTree == Obj([Error |-> ErrorElement(BadInput)])

NodeErrorNode == Obj([Error |-> Arr(<<ErrorElement(NotFound)>>)])

\* what <Unexpected/> parses to: the result path is not in it
PathAbsentTree == Obj([Unexpected |-> Str(<<>>)])

\* the service sends back the Address element of the request, each field as the
\* parser gives it; an empty field is left out, or kept as an empty element
EchoNode(address, keepEmpty) ==
  LET kept == {k \in DOMAIN address.v : keepEmpty \/ Truthy(address.v[k])}
  IN Obj([k \in kept |-> Arr(<<address.v[k]>>)])

EchoTrees(c) ==
  IF c.op \in {"verify", "zipCodeLookup"}
  THEN {TreeAt(ResultDotNotation(c.op),
               EchoNode(c.sent[1].qs.XML.children.Address, keepEmpty)) :
          keepEmpty \in BOOLEAN}
  ELSE {}

\* the bodies the transport may deliver for call c
Bodies(c) ==
  IF c.pc # "sent" THEN {} ELSE
  {Malformed, RootErrorTree, PathAbsentTree,
   TreeAt(ResultDotNotation(c.op), GoodNode(c.op)),
   TreeAt(ResultDotNotation(c.op), ShortNode(c.op)),
   TreeAt(ResultDotNotation(c.op), NodeErrorNode)}

\* ------------------------------------------------------------- the caller's inputs
Server == Str(<<"http://production.shippingapis.com/ShippingAPI.dll">>)

UserId == Str(<<"123USER4567">>)

\* a config with the given fields; Undefined leaves the field out
Config(server, userId, ttl) ==
  LET fields == [server |-> server, userId |-> userId, ttl |-> ttl]
  IN Obj([k \in {k \in DOMAIN fields : fields[k] # Undefined} |-> fields[k]])

Configs ==
  {Undefined} \cup
  {Config(s, u, ttl) : s \in {Undefined, Str(<<>>), Server},
                       u \in {Undefined, Str(<<>>), UserId},
                       ttl \in {Undefined, IntNum(0), IntNum(5000)}}

Address(street1, street2) ==
  LET fields == [street1 |-> Str(<<street1>>), street2 |-> street2,
                 city |-> Str(<<"DENVER">>), state |-> Str(<<"CO">>),
                 zip |-> Str(<<"80202">>)]
  IN Obj([k \in {k \in DOMAIN fields : fields[k] # Undefined} |-> fields[k]])

\* the address every concurrent call uses
Addresses == {Address("1 MAIN ST", Undefined)}

Zips == {Str(<<"80202">>)}

Weights == {IntNum(24)}

Services == {Undefined}

\* ------------------------------------------------------------- the client and its calls
Init ==
  /\ client = NotConstructed
  /\ calls = [i \in CallIds |-> IdleCall]
  /\ obj = Undefined
  /\ ex = NoExtract

Next ==
  \/ \E config \in Configs : New(config)
  \/ \E i \in CallIds, address \in Addresses : verify(i, address)
  \/ \E i \in CallIds, address \in Addresses : zipCodeLookup(i, address)
  \/ \E i \in CallIds, zip \in Zips : cityStateLookup(i, zip)
  \/ \E i \in CallIds, weight \in Weights, service \in Services :
       RateV4Request(i, Str(<<"80202">>), Str(<<"10001">>), weight, service)
  \/ \E i \in CallIds, err \in TransportErrors : requestFailed(i, err)
  \/ \E i \in CallIds, mode \in CatchModes :
       \E body \in Bodies(calls[i]) : responded(i, body, mode)

Spec == Init /\ [][Next]_vars

\* ------------------------------------------------------------- one call, every input
\* (the requests of verify and RateV4Request, and verify's answer to an echo)
FacadeAddresses ==
  {Address(street1, street2) : street1 \in {"1 MAIN ST", "22 OAK AVE"},
                               street2 \in {Undefined, Str(<<>>), Str(<<"APT 4">>)}}

WeightChars == {"1", "6", "a", " ", "-"}

RECURSIVE Texts(_, _)
Texts(chars, n) ==
  IF n = 0 THEN {<<>>}
  ELSE Texts(chars, n - 1) \cup
       {Append(s, c) : s \in {t \in Texts(chars, n - 1) : Len(t) = n - 1}, c \in chars}

RateWeights ==
  {IntNum(w) : w \in 0..MaxWeight}
  \cup {Str(s) : s \in Texts(WeightChars, MaxWeightStrLen)}
  \cup {Undefined, Null, Num(33, 2), IntNum(-8)}

RateServices == {Undefined, Str(<<"PRIORITY">>)}

InitFacade ==
  /\ client = [state |-> "ok", arg |-> Config(Server, UserId, Undefined),
               config |-> usps(Config(Server, UserId, Undefined))]
  /\ calls = [i \in CallIds |-> IdleCall]
  /\ obj = Undefined
  /\ ex = NoExtract

NextFacade ==
  \/ \E address \in FacadeAddresses : verify(1, address)
  \/ \E weight \in RateWeights, service \in RateServices :
       RateV4Request(1, Str(<<"80202">>), Str(<<"10001">>), weight, service)
  \/ \E body \in EchoTrees(calls[1]) : responded(1, body, "rethrow")

SpecFacade == InitFacade /\ [][NextFacade]_vars

\* ------------------------------------------------------------- callUSPS's response handling, every tree
Descriptions == Texts({" ", "a"}, MaxDescLen)

\* the values of an Error key
ErrorValues ==
  {Obj([Description |-> Arr(<<Str(d)>>)]) : d \in Descriptions}
  \cup {ErrorElement(BadInput), Obj([Number |-> One("80040b1a")]),
        Obj([Description |-> Arr(<<>>)]), Str(<<"oops">>), Str(<<>>)}

\* the values of a result node's Error key
NodeErrorValues ==
  {Arr(<<Obj([Description |-> Arr(<<Str(<<" ", "a">>)>>)])>>),
   Arr(<<Obj([Number |-> One("80040b1a")])>>)}

Leaves == {Str(<<"x">>), Str(<<"y">>)}

\* an element as the parser may give it: bare, or in a sequence of one or two
Given(v, w) == {v, Arr(<<v>>), Arr(<<v, w>>)}

InnerValues ==
  UNION {Given(v, w) : v \in Leaves, w \in Leaves} \cup {Arr(<<>>)}

InnerNodes ==
  {Obj([B |-> b]) : b \in InnerValues}
  \cup {Obj([B |-> One("x"), Error |-> e]) : e \in NodeErrorValues}
  \cup {Obj([A |-> One("y")])}

OuterValues ==
  UNION {Given(n, Obj([B |-> One("z")])) : n \in InnerNodes}

ExtractTrees ==
  {Obj([A |-> a]) : a \in OuterValues}
  \cup {Obj([A |-> Arr(<<Obj([B |-> One("x")])>>), B |-> Arr(<<Obj([A |-> One("y")])>>)])}
  \cup {Obj([A |-> Arr(<<Obj([B |-> One("x")])>>), B |-> One("y")])}
  \cup {Obj([Error |-> e]) : e \in ErrorValues}
  \cup {Obj([A |-> a, Error |-> e]) :
          a \in {Arr(<<Obj([B |-> One("x")])>>),
                 Arr(<<Obj([B |-> One("x"), Error |-> Arr(<<ErrorElement(NotFound)>>)])>>)},
          e \in ErrorValues}
  \cup {Null, Malformed}

ExtractPaths ==
  {<<"A">>, <<"B">>, <<"A", ".", "B">>, <<"B", ".", "A">>, <<"A", ".", "B", ".", "C">>}

InitExtract ==
  /\ client = NotConstructed
  /\ calls = [i \in CallIds |-> IdleCall]
  /\ obj = Undefined
  /\ ex \in {[pc |-> "ready", op |-> op, resultDotNotation |-> path, result |-> tree,
              calls |-> <<>>, uncaught |-> FALSE] :
               op \in Ops, path \in ExtractPaths, tree \in ExtractTrees}

\* xml2js.parseString(body, ...) inside callUSPS(api, method, resultDotNotation, ...)
Extract(mode) ==
  LET h == parseString(ex.op, Api(ex.op), ex.resultDotNotation, ex.result, mode)
  IN /\ ex.pc = "ready"
     /\ ex' = [ex EXCEPT !.pc = "done", !.calls = h.calls, !.uncaught = h.uncaught]
     /\ UNCHANGED <<client, calls, obj>>

NextExtract == \E mode \in CatchModes : Extract(mode)

SpecExtract == InitExtract /\ [][NextExtract]_vars

\* ------------------------------------------------------------- properties
Done(i) == calls[i].pc = "done"

HasKey(x, k) == x.t = "object" /\ k \in DOMAIN x.v

\* the caller's callback got a success value: no error, and a value
Succeeded(cbs) ==
  Len(cbs) = 1 /\ ~Truthy(cbs[1].err) /\ cbs[1].data # Undefined

\* the caller's callback got an error, and no value
Failed(cbs) ==
  Len(cbs) = 1 /\ Truthy(cbs[1].err) /\ cbs[1].data = Undefined

\* C1: once the transport has answered a call, whatever the answer (transport
\* error, timeout, unparsable body, root-level or node-level Error, result
\* path present or absent, result node with or without the fields the reshape
\* reads), the caller's callback has been invoked exactly once, with an error
\* or with a success value and never both.
C1_CallbackExactlyOnce ==
  \A i \in CallIds : Done(i) => Succeeded(calls[i].cbs) \/ Failed(calls[i].cbs)

\* e.Description[0] is a text
HasDescription(e) ==
  /\ HasKey(e, "Description")
  /\ e.v.Description.t = "array"
  /\ Len(e.v.Description.v) > 0
  /\ e.v.Description.v[1].t = "string"

\* t is s without its leading and trailing whitespace
IsTrimOf(t, s) ==
  \E i \in 0..Len(s) :
    /\ i + Len(t) <= Len(s)
    /\ \A k \in 1..i : s[k] \in Whitespace
    /\ \A k \in 1..Len(t) : s[i + k] = t[k]
    /\ \A k \in (i + Len(t) + 1)..Len(s) : s[k] \in Whitespace
    /\ t # <<>> => t[1] \notin Whitespace /\ t[Len(t)] \notin Whitespace

\* the callback got exactly the root-level error e, and no value
GotRootError(cbs, e) ==
  /\ Failed(cbs)
  /\ cbs[1].err.t = "USPSError"
  /\ cbs[1].err.err = e

NodeWithoutError(c) ==
  LET node == walkResult(c.body, Split(ResultDotNotation(c.op)))
  IN ~HasKey(node, "Error")

\* the transport returned a body, it parsed, and neither the tree nor the
\* result node has an Error key
PipelineSucceeded(c) ==
  /\ c.err = Null
  /\ c.body # Malformed
  /\ ~HasKey(c.body, "Error")
  /\ NodeWithoutError(c)

\* C3: the caller's callback receives a success value if and only if the
\* transport returned a body without error, the body parsed, the tree has no
\* root-level Error and the result node no Error; in every other case it
\* receives the pipeline's error and no value.
C3_SuccessIffPipelineSucceeded ==
  \A i \in CallIds : Done(i) =>
    /\ Succeeded(calls[i].cbs) <=> PipelineSucceeded(calls[i])
    /\ ~PipelineSucceeded(calls[i]) =>
         Failed(calls[i].cbs) /\ calls[i].cbs[1].err.t = "USPSError"

\* C4: every call that was issued has handed exactly one request to the
\* transport, also after it completed with a transport error, a timeout, a
\* parse error or a domain error.
C4_OneRequestPerCall ==
  \A i \in CallIds : Len(calls[i].sent) = IF calls[i].pc = "idle" THEN 0 ELSE 1

\* two calls completed, one by a timeout and one by a root-level Error, each
\* with one request sent and its error delivered
C4_Witness ==
  /\ Done(1) /\ calls[1].err = TimeoutError /\ Failed(calls[1].cbs)
  /\ Done(2) /\ calls[2].body = RootErrorTree /\ Failed(calls[2].cbs)
  /\ Len(calls[1].sent) = 1 /\ Len(calls[2].sent) = 1

\* C5: no call writes a variable visible to another call (the global obj stays
\* unassigned), no call modifies the client's config, and every call sends the
\* request it would send alone.
C5_NoSharedState ==
  /\ obj = Undefined
  /\ client.state = "ok" => client.config = usps(client.arg)
  /\ \A i \in CallIds : calls[i].pc # "idle" =>
       calls[i].sent[1].timeout = Get(client.config, "ttl")

\* config.k is missing: no config, no such field, or an empty one
Missing(config, k) ==
  config = Undefined \/ ~HasKey(config, k) \/ config.v[k] = Str(<<>>)

NoCallIssued == \A i \in CallIds : calls[i].pc = "idle"

\* construction fails exactly when the config, the server or the userId is
\* missing, and then no call is ever issued
ConstructionFailsWhenMissing ==
  /\ client.state = "failed" <=>
       (client.state # "none"
        /\ (Missing(client.arg, "server") \/ Missing(client.arg, "userId")))
  /\ client.state # "ok" => NoCallIssued

\* C8 as stated: construction fails when the config, the server or the userId
\* is missing and no call can then be attempted; otherwise it succeeds and the
\* timeout is the supplied value, or 100000 when none is supplied.
C8_TimeoutIsSuppliedValue ==
  /\ ConstructionFailsWhenMissing
  /\ client.state = "ok" =>
       Get(client.config, "ttl") =
         IF HasKey(client.arg, "ttl") THEN client.arg.v.ttl ELSE IntNum(100000)

\* C8, amended: as stated, except that the timeout is the supplied value when
\* one other than 0 is supplied, and 100000 when none or 0 is supplied.
C8_Construction ==
  /\ ConstructionFailsWhenMissing
  /\ client.state = "ok" =>
       /\ Get(client.config, "ttl") =
            IF HasKey(client.arg, "ttl") /\ client.arg.v.ttl # IntNum(0)
            THEN client.arg.v.ttl
            ELSE IntNum(100000)
       /\ \A i \in CallIds : calls[i].pc # "idle" =>
            calls[i].sent[1].timeout = Get(client.config, "ttl")

\* a client constructed without a timeout has sent a request with timeout 100000
C8_Witness ==
  /\ client.state = "ok"
  /\ ~HasKey(client.arg, "ttl")
  /\ calls[1].pc = "sent"
  /\ calls[1].sent[1].timeout = IntNum(100000)

\* C9: every operation returns the client it was called on, before its
\* callback fires.
C9_ReturnsThis ==
  \A i \in CallIds : calls[i].pc # "idle" => calls[i].ret = This

\* the weight is a whole number of ounces W >= 0
IsOunces(weight) == weight.t = "number" /\ weight.d = 1 /\ weight.n >= 0

\* the weight is no number and no text with a digit in it
NonNumeric(weight) ==
  \/ weight \in {Undefined, Null}
  \/ weight.t = "string" /\ \A k \in 1..Len(weight.v) : ~IsDigit(weight.v[k])

\* C6: for a weight of W >= 0 whole ounces the request's Pounds is W/16 by real
\* division (16 * Pounds = W) and its Ounces is W itself; for a non-numeric
\* weight both are 0.
C6_PoundsAndOunces ==
  calls[1].op = "RateV4Request" =>
    LET weight == calls[1].args.v.weight
        sent == calls[1].sent[1].qs.XML.children
    IN /\ IsOunces(weight) =>
            /\ sent.Pounds.t = "number"
            /\ 16 * sent.Pounds.n = weight.n * sent.Pounds.d
            /\ sent.Ounces = weight
       /\ NonNumeric(weight) =>
            sent.Pounds = IntNum(0) /\ sent.Ounces = IntNum(0)

\* a rate request for 24 ounces was sent with Pounds = 3/2 and Ounces = 24
C6_Witness ==
  /\ calls[1].op = "RateV4Request"
  /\ calls[1].args.v.weight = IntNum(24)
  /\ calls[1].sent[1].qs.XML.children.Pounds = Num(3, 2)
  /\ calls[1].sent[1].qs.XML.children.Ounces = IntNum(24)

\* the address has no street2
NoStreet2(address) == ~HasKey(address, "street2") \/ address.v.street2 = Str(<<>>)

\* C7: for an address without street2, verify sends Address1 = '' and
\* Address2 = street1, and when the service answers with the Address it was
\* sent, the caller gets street1 = the input street1 and street2 = ''.
C7_RoundTrip ==
  calls[1].op = "verify" /\ NoStreet2(calls[1].args) =>
    LET sent == calls[1].sent[1].qs.XML.children.Address.v
    IN /\ sent.Address1 = Str(<<>>)
       /\ sent.Address2 = calls[1].args.v.street1
       /\ Done(1) =>
            /\ Succeeded(calls[1].cbs)
            /\ calls[1].cbs[1].data.v.street1 = calls[1].args.v.street1
            /\ calls[1].cbs[1].data.v.street2 = Str(<<>>)

\* verify of "22 OAK AVE" without street2 was answered by the echo that leaves
\* Address1 out, and the caller got the record back
C7_Witness ==
  /\ Done(1) /\ calls[1].op = "verify"
  /\ ~HasKey(calls[1].args, "street2")
  /\ ~HasKey(calls[1].body.v.AddressValidateResponse.v.Address.v[1], "Address1")
  /\ calls[1].cbs[1].data.v.street1 = Str(<<"22 OAK AVE">>)

\* index node by key and, if the value is a sequence, take its element 0
StepInto(node, key) ==
  IF node.v[key].t = "array" THEN node.v[key].v[1] ELSE node.v[key]

\* node has key, and a sequence under it has an element 0
CanStepInto(node, key) ==
  HasKey(node, key) /\ (node.v[key].t = "array" => Len(node.v[key].v) > 0)

\* every key of keys exists along the way from tree
PathExists(tree, keys) ==
  /\ Len(keys) \in 1..2
  /\ CanStepInto(tree, keys[1])
  /\ Len(keys) = 2 => CanStepInto(StepInto(tree, keys[1]), keys[2])

\* the left-to-right fold of StepInto over keys
FoldedNode(tree, keys) ==
  IF Len(keys) = 1 THEN StepInto(tree, keys[1])
  ELSE StepInto(StepInto(tree, keys[1]), keys[2])

\* C10: for a tree without a root-level Error and a path whose keys all exist,
\* the extracted node is the left-to-right fold over the keys of "index by the
\* key, then take element 0 of a sequence": it is what RateV4Request's caller
\* receives when it has no Error, and otherwise its Error is the error's cause.
C10_ExtractionIsFold ==
  ex.pc = "done" /\ ~HasKey(ex.result, "Error")
    /\ PathExists(ex.result, Split(ex.resultDotNotation)) =>
    LET node == FoldedNode(ex.result, Split(ex.resultDotNotation))
    IN IF HasKey(node, "Error")
       THEN Failed(ex.calls) /\ ex.calls[1].err.err = node.v.Error
       ELSE ex.op = "RateV4Request" =>
              Succeeded(ex.calls) /\ ex.calls[1].data = node

\* with a sequence of two at each level along "A.B", tree.A[0].B[0] is delivered
C10_Witness ==
  /\ ex.pc = "done" /\ ex.op = "RateV4Request"
  /\ ex.resultDotNotation = <<"A", ".", "B">>
  /\ ex.result = Obj([A |-> Arr(<<Obj([B |-> Arr(<<Str(<<"x">>), Str(<<"y">>)>>)]),
                                  Obj([B |-> One("z")])>>)])
  /\ ex.calls = <<[err |-> Null, data |-> Str(<<"x">>)]>>

====
